---- MODULE Spec2Model ----
(***************************************************************************)
(* Model of the Sage TTS download scripts.  The repository holds four      *)
(* variants of one script:                                                 *)
(*   "filter" : src/generateAudio.js   (PQueue, newLines filter)           *)
(*   "size"   : src/unnamed/part_000   (PQueue, newLines filter, download  *)
(*                                      also checks the file size)         *)
(*   "seen"   : src/unnamed/part_001   (PQueue, seen set, no filter)       *)
(*   "group"  : src/unnamed/part_002   (groups of `concurrency` lines      *)
(*                                      awaited with Promise.all)          *)
(* One JavaScript macrotask (a timer callback, an HTTP response, together  *)
(* with the microtasks it triggers) is one action of the model.            *)
(*                                                                         *)
(* Specifications:                                                         *)
(*   Spec        : all variants, two runs of the script (Restart)          *)
(*   SpecWide    : longer Line Sources, one run                            *)
(*   SpecCollide : queue scripts on Lines that share a file name           *)
(*   SpecBackoff : one Line more than slots, a retryable answer per slot   *)
(*   SpecNoReply : one run, timers and continuations fair, the network     *)
(*                 free never to answer                                    *)
(*   SpecFair    : SpecNoReply with every request eventually answered      *)
(***************************************************************************)
EXTENDS Integers, Sequences, FiniteSets, TLC

\* ------------------------------------------------------------------ bounds
MaxLines == 2      \* longest Line Source of the general specification
MaxWide  == 4      \* longest Line Source of the wide specification
MaxRetry == 1      \* retryable answers (429, 500) drawn in all

\* --------------------------------------------------------------- settings
concurrency == 3
BatchEvery  == 50
SafeNameMax == 100
retryWait   == 300000

Variants      == {"filter", "size", "seen", "group"}
QueueVariants == {"filter", "size", "seen"}

\* ------------------------------------------------------------------- text
\* A text is a sequence of one-character strings.
Hi    == <<"H", "i">>
hi    == <<"h", "i">>
HiDot == <<"H", "i", ".">>
Yo    == <<"Y", "o">>
SpHi  == <<" ", "H", "i">>
Ho    == <<"H", "o">>
Yi    == <<"Y", "i">>
Oh    == <<"o", "h">>
Oy    == <<"o", "y">>

MP3 == <<".mp3">>

Min(a, b) == IF a < b THEN a ELSE b

\* String.prototype.toLowerCase on the characters in use.
LowerChar(c) == CASE c = "H" -> "h" [] c = "Y" -> "y" [] OTHER -> c
toLowerCase(t) == [k \in 1..Len(t) |-> LowerChar(t[k])]

\* The allow-set of safeName's replace(): \w and the letter/digit ranges.
\* Of the characters in use only the letters are in it; "." and " " are not.
IsAllowed(c) == c \in {"H", "h", "i", "Y", "y", "o"}

safeName(t) ==
  LET stripped == SelectSeq(toLowerCase(t), IsAllowed)
  IN  SubSeq(stripped, 1, Min(SafeNameMax, Len(stripped))) \o MP3

\* String.prototype.trim
RECURSIVE trimStart(_)
trimStart(t) == IF t # <<>> /\ Head(t) = " " THEN trimStart(Tail(t)) ELSE t
RECURSIVE trimEnd(_)
trimEnd(t) ==
  IF t # <<>> /\ t[Len(t)] = " " THEN trimEnd(SubSeq(t, 1, Len(t) - 1)) ELSE t
trim(t) == trimEnd(trimStart(t))

\* UTF-16 code units, as Array.prototype.sort compares strings.
Code(c) ==
  CASE c = " " -> 32 [] c = "." -> 46 [] c = "H" -> 72 [] c = "Y" -> 89
    [] c = "h" -> 104 [] c = "i" -> 105 [] c = "o" -> 111 [] c = "y" -> 121

RECURSIVE StrLess(_, _)
StrLess(a, b) ==
  IF b = <<>> THEN FALSE
  ELSE IF a = <<>> THEN TRUE
  ELSE IF Code(Head(a)) # Code(Head(b)) THEN Code(Head(a)) < Code(Head(b))
  ELSE StrLess(Tail(a), Tail(b))

\* The file a Line is stored under: safeName(text) in the queue variants,
\* `${text}.mp3` in the group variant.
FileOf(v, t) == IF v = "group" THEN t \o MP3 ELSE safeName(t)


\* ------------------------------------------------------------------ state
VARIABLES
  variant,     \* which script runs
  lines,       \* the Line Source: what the extraction hands to main
  input,       \* the input file(s) of the extraction: "present" | "missing"
  store,       \* the audio directory: file -> "absent" | "empty" | "partial" | "full"
  failLog,     \* failures.txt, a sequence of texts
  pcMain,      \* where main is: "start", "loop" (in wait(baseDelay)), "idle"
               \* (in queue.onIdle()), "group" (in Promise.all), "done", "uptodate",
               \* "fatal" (process.exit(1))
  idx,         \* the next item of main's loop
  tasks,       \* one record for each item main iterates over
  queue,       \* PQueue: the tasks added and not started
  pending,     \* PQueue: the tasks started and not settled
  count,       \* main's count
  seen,        \* part_001's seen set
  retries,     \* the retryable answers drawn so far
  budget,      \* the retryable answers the server gives in all
  store0,      \* the directory as the current run found it
  failOrder,   \* the tasks that ended Failed in this run, in the order they did
  run,         \* 1 or 2: the second run follows the first on the store it left
  failedRun1   \* a Line of the first run ended Failed

vars ==
  <<variant, lines, input, budget, store, failLog, pcMain, idx, tasks, queue, pending,
    count, seen, retries, store0, failOrder, run, failedRun1>>

\* What a fetch can answer: an HTTP status, or an "error" event of the request.
Status(c) == [kind |-> "status", code |-> c]
NetError == [kind |-> "error", code |-> 0]
Answers == {Status(200), Status(404), Status(429), Status(500), Status(503), NetError}

\* String(e).includes("HTTP 429") / includes("HTTP 500"), e being `HTTP ${statusCode}`
\* or err.message.
Includes429(e) == e.kind = "status" /\ e.code = 429
Includes500(e) == e.kind = "status" /\ e.code = 500

NewTask(t) ==
  [text |-> t, st |-> "new", nf |-> 0, rl |-> FALSE, blk |-> FALSE, att |-> 0,
   orph |-> FALSE, ord |-> 0]

\* download's / fetchAudio's skip test on the file: existsSync, and in part_000
\* also size > 0.
FileExists_NoCheck(v, s, f) == FALSE
FileExists(v, s, f) ==
  IF v = "size" THEN s[f] \in {"partial", "full"} ELSE s[f] # "absent"

\* main's filter: only fs.existsSync.
IsNewLine(s, t) == s[safeName(t)] = "absent"

\* The rank of the next first request among the first requests of the run.
NextOrd(m) == 1 + Cardinality({j \in 1..Len(m.tasks) : m.tasks[j].ord > 0})

\* The synchronous part of download(text) for task i of machine m, `vis` being
\* the directory as existsSync sees it.
download(m, i, vis) ==
  LET f == safeName(m.tasks[i].text)
  IN  IF FileExists(variant, vis, f)
      THEN [m EXCEPT !.tasks[i].st = "resolved", !.micro = Append(@, i)]
      ELSE [m EXCEPT !.tasks[i].st = "inflight", !.tasks[i].nf = @ + 1,
                     !.tasks[i].orph = FALSE,
                     !.tasks[i].ord = IF @ = 0 THEN NextOrd(m) ELSE @,
                     !.created = @ \cup {f}]

\* PQueue: start the head of the queue when a slot is free.
CanStart_Off(m) == m.pending <= concurrency
CanStart(m) == m.pending < concurrency

tryToStartAnother(m, vis) ==
  IF m.queue # <<>> /\ CanStart(m)
  THEN download([m EXCEPT !.queue = Tail(@), !.pending = @ + 1], Head(m.queue), vis)
  ELSE m

\* queue.add(task)
add(m, i, vis) ==
  tryToStartAnother([m EXCEPT !.queue = Append(@, i), !.tasks[i].st = "queued"], vis)

\* PQueue after a task settled: the slot is released and the next task starts.
next_KeepsSlot(m, vis) == tryToStartAnother(m, vis)
next(m, vis) == tryToStartAnother([m EXCEPT !.pending = @ - 1], vis)

\* The microtasks: every task whose download resolved "skipped" continues
\* (count++, done), settles, and PQueue starts the next task.
RECURSIVE drain(_, _)
drain(m, vis) ==
  IF m.micro = <<>> THEN m
  ELSE LET i  == Head(m.micro)
           m1 == [m EXCEPT !.micro = Tail(@), !.tasks[i].st = "skipped",
                           !.count = @ + 1]
       IN  drain(next(m1, vis), vis)

\* part_001's duplicate test in the dispatch loop.
SeenKey(t) == toLowerCase(trim(t))

\* main's for-loop from item k until it awaits: wait(baseDelay) or queue.onIdle().
RECURSIVE loop(_, _, _)
loop(m, k, vis) ==
  IF k > Len(m.tasks) THEN [m EXCEPT !.pc = "idle", !.idx = k]
  ELSE IF variant = "seen" /\ SeenKey(m.tasks[k].text) \in m.seen
       THEN loop([m EXCEPT !.tasks[k].st = "dup"], k + 1, vis)
       ELSE LET m0 == IF variant = "seen"
                      THEN [m EXCEPT !.seen = @ \cup {SeenKey(m.tasks[k].text)}]
                      ELSE m
                m1 == add(m0, k, vis)
            IN  IF m1.count % BatchEvery = 0
                THEN [m1 EXCEPT !.pc = "loop", !.idx = k + 1]
                ELSE loop(m1, k + 1, vis)

\* The directory after the write streams created in this macrotask opened
\* (flag "w": the file exists and is empty).
Opened(s, created) == [f \in DOMAIN s |-> IF f \in created THEN "empty" ELSE s[f]]

\* The machine state the operators above work on.
Machine ==
  [tasks |-> tasks, queue |-> queue, pending |-> pending, count |-> count,
   seen |-> seen, pc |-> pcMain, idx |-> idx, log |-> failLog,
   failed |-> failOrder, micro |-> <<>>, created |-> {}]

Commit(m, s) ==
  /\ tasks' = m.tasks
  /\ queue' = m.queue
  /\ pending' = m.pending
  /\ count' = m.count
  /\ seen' = m.seen
  /\ pcMain' = m.pc
  /\ idx' = m.idx
  /\ failLog' = m.log
  /\ failOrder' = m.failed
  /\ store' = Opened(s, m.created)

\* ------------------------------------------------- part_002: groups
\* allTexts = [...new Set(allTexts.map(t => t.trim()))].filter(t => t.length > 1).sort()
RECURSIVE SortSet(_)
SortSet(S) ==
  IF S = {} THEN <<>>
  ELSE LET lo == CHOOSE a \in S : \A b \in S \ {a} : StrLess(a, b)
       IN  <<lo>> \o SortSet(S \ {lo})

allTexts(ls) == SortSet({t \in {trim(ls[k]) : k \in 1..Len(ls)} : Len(t) > 1})

Terminal == {"ok", "skipped", "failed", "dup"}

\* The synchronous part of fetchAudio(text, attempt) for task i.
fetchAudio(m, i, attempt, vis) ==
  IF FileExists(variant, vis, m.tasks[i].text \o MP3)
  THEN [m EXCEPT !.tasks[i].st = "skipped"]
  ELSE [m EXCEPT !.tasks[i].st = "inflight", !.tasks[i].nf = @ + 1,
                 !.tasks[i].ord = IF @ = 0 THEN NextOrd(m) ELSE @,
                 !.tasks[i].att = attempt]

GroupOf(m, k) == {i \in k..(k + concurrency - 1) : i <= Len(m.tasks)}

\* group.map(fetchAudio): Array.prototype.map calls fetchAudio(text, index, array),
\* so `attempt` is the position of the text in its group: 0, 1, 2.
RECURSIVE mapFetchAudio(_, _, _, _)
mapFetchAudio(m, k, j, vis) ==
  IF j >= concurrency \/ k + j > Len(m.tasks) THEN m
  ELSE mapFetchAudio(fetchAudio(m, k + j, j, vis), k, j + 1, vis)

\* main's while-loop from index k until it awaits: Promise.all or delay(baseDelay).
RECURSIVE groups(_, _, _)
groups(m, k, vis) ==
  IF k > Len(m.tasks) THEN [m EXCEPT !.pc = "done", !.idx = k]
  ELSE LET m1 == mapFetchAudio(m, k, 0, vis)
       IN  IF \A i \in GroupOf(m1, k) : m1.tasks[i].st \in Terminal
           THEN IF k + concurrency <= Len(m1.tasks)
                THEN [m1 EXCEPT !.pc = "loop", !.idx = k + concurrency]
                ELSE [m1 EXCEPT !.pc = "done", !.idx = k + concurrency]
           ELSE [m1 EXCEPT !.pc = "group", !.idx = k]

\* Promise.all resolves once every fetchAudio of the group resolved.
AllSettled(m) == \A i \in GroupOf(m, m.idx) : m.tasks[i].st \in Terminal

afterSettle(m) ==
  IF m.pc = "group" /\ AllSettled(m)
  THEN IF m.idx + concurrency <= Len(m.tasks)
       THEN [m EXCEPT !.pc = "loop", !.idx = @ + concurrency]
       ELSE [m EXCEPT !.pc = "done", !.idx = @ + concurrency]
  ELSE m

\* ---------------------------------------------------------------- actions
\* The items main iterates over.
Work(v, ls, s) ==
  CASE v \in {"filter", "size"} -> SelectSeq(ls, LAMBDA t : IsNewLine(s, t))
    [] v = "seen"  -> [k \in 1..Len(ls) |-> trim(ls[k])]
    [] v = "group" -> allTexts(ls)

\* Module load and main up to its first await.  `sees`: whether an existsSync in
\* a microtask sees the file of a write stream created earlier in the same
\* macrotask (the open runs on the thread pool).
MainStart(sees) ==
  /\ pcMain = "start"
  /\ LET work == Work(variant, lines, store)
         m0   == [Machine EXCEPT !.tasks = [k \in 1..Len(work) |-> NewTask(work[k])],
                                 !.log = IF variant = "group" THEN @ ELSE <<>>]
     IN  IF variant = "group"
         THEN IF input = "missing"
              THEN \* console.error("Could not find"); process.exit(1)
                   Commit([m0 EXCEPT !.pc = "fatal"], store)
              ELSE Commit(groups(m0, 1, store), store)
         ELSE IF work = <<>>
              THEN Commit([m0 EXCEPT !.pc = "uptodate"], store)
              ELSE LET m1 == loop(m0, 1, store)
                       v2 == IF sees THEN Opened(store, m1.created) ELSE store
                   IN  Commit(drain(m1, v2), store)
  /\ UNCHANGED <<variant, lines, input, budget, retries, store0, run, failedRun1>>

\* wait(baseDelay) / delay(baseDelay) is over.
MainWake(sees) ==
  /\ pcMain = "loop"
  /\ LET m0 == [Machine EXCEPT
                  !.tasks = [k \in 1..Len(tasks) |-> [tasks[k] EXCEPT !.blk = FALSE]]]
     IN  IF variant = "group"
         THEN Commit(groups(m0, idx, store), store)
         ELSE LET m1 == loop(m0, idx, store)
                  v2 == IF sees THEN Opened(store, m1.created) ELSE store
              IN  Commit(drain(m1, v2), store)
  /\ UNCHANGED <<variant, lines, input, budget, retries, store0, run, failedRun1>>

\* The directory after the response was piped into the file of a Line and the
\* stream finished, and after fs.unlink of the file.
Written_Unlinked(s, f) == [s EXCEPT ![f] = "absent"]
Written(s, f) == [s EXCEPT ![f] = "full"]
Unlinked(s, f) == [s EXCEPT ![f] = "absent"]

\* A retryable answer is drawn only while the run has retries left.
Retryable(v, o) == Includes429(o) \/ (v # "group" /\ Includes500(o))
MayAnswer(v, o) == Retryable(v, o) => retries < budget
Drawn(v, o) == retries' = IF Retryable(v, o) THEN retries + 1 ELSE retries

\* fs.unlink removes the name of the file; a write stream another task holds
\* open on it keeps writing to a file that is no longer in the directory.
Orphaned(m, i, f) ==
  [m EXCEPT !.tasks = [j \in 1..Len(m.tasks) |->
     IF j # i /\ m.tasks[j].st = "inflight" /\ safeName(m.tasks[j].text) = f
     THEN [m.tasks[j] EXCEPT !.orph = TRUE]
     ELSE m.tasks[j]]]

\* The catch branch of the queued task: what error e does to task i.
Classify(e) ==
  IF Includes429(e) THEN "wait429" ELSE IF Includes500(e) THEN "wait500" ELSE "failed"

\* The catch branch on any other error: the Line's text is appended to
\* failures.txt and the task is done.
logFailure_Unlogged(m, i) ==
  [m EXCEPT !.tasks[i].st = "failed", !.failed = Append(@, i)]
logFailure(m, i) ==
  [m EXCEPT !.tasks[i].st = "failed", !.failed = Append(@, i),
            !.log = Append(@, m.tasks[i].text)]

\* The catch branch on a retryable error: the task awaits wait(retryWait) or
\* wait(120000) inside its while-loop.  It has not settled: PQueue is not told
\* and the task keeps its slot.
retryLater_FreesSlot(m, i, o, vis) ==
  next([m EXCEPT !.tasks[i].st = Classify(o),
                 !.tasks[i].rl = @ \/ Includes429(o),
                 !.tasks[i].blk = (m.pc = "loop")], vis)
retryLater(m, i, o, vis) ==
  [m EXCEPT !.tasks[i].st = Classify(o),
            !.tasks[i].rl = @ \/ Includes429(o),
            !.tasks[i].blk = (m.pc = "loop")]

\* The request of task i is answered (queue variants).
Respond(i, o) ==
  /\ variant \in QueueVariants
  /\ i \in 1..Len(tasks)
  /\ tasks[i].st = "inflight"
  /\ MayAnswer(variant, o)
  /\ Drawn(variant, o)
  /\ LET f  == safeName(tasks[i].text)
         m0 == IF o = Status(200) THEN Machine ELSE Orphaned(Machine, i, f)
     IN  IF o = Status(200)
         THEN \* res.pipe(file); on finish: resolve("ok"); count++; done
              LET s1 == IF tasks[i].orph THEN store ELSE Written(store, f)
                  m1 == [m0 EXCEPT !.tasks[i].st = "ok", !.count = @ + 1]
              IN  Commit(drain(next(m1, s1), s1), s1)
         ELSE \* the file is unlinked, then the promise rejects
              LET s1 == Unlinked(store, f)
                  c  == Classify(o)
              IN  IF c = "failed"
                  THEN Commit(drain(next(logFailure(m0, i), s1), s1), s1)
                  ELSE Commit(retryLater(m0, i, o, s1), s1)
  /\ UNCHANGED <<variant, lines, input, budget, store0, run, failedRun1>>

\* wait(retryWait) / wait(120000) of task i is over: the while-loop calls
\* download again.  A timer armed while main's shorter wait(baseDelay) was
\* pending cannot fire before it.
BackoffExpire(i) ==
  /\ variant \in QueueVariants
  /\ i \in 1..Len(tasks)
  /\ tasks[i].st \in {"wait429", "wait500"}
  /\ ~tasks[i].blk
  /\ Commit(drain(download(Machine, i, store), store), store)
  /\ UNCHANGED <<variant, lines, input, budget, retries, store0, run, failedRun1>>

\* The response of task i is 200 and the connection is lost while the body is
\* piped into the file: res emits "aborted" and "close", never "end", so the
\* write stream never finishes and the promise never settles.  No handler of
\* the code runs: the file keeps what was written.
Truncated(s, f) == [s EXCEPT ![f] = "partial"]

StreamAbort(i) ==
  /\ i \in 1..Len(tasks)
  /\ tasks[i].st = "inflight"
  /\ tasks' = [tasks EXCEPT ![i].st = "stuck"]
  /\ store' = IF tasks[i].orph THEN store
              ELSE Truncated(store, FileOf(variant, tasks[i].text))
  /\ UNCHANGED <<variant, lines, input, budget, failLog, pcMain, idx, queue, pending, count,
                 seen, retries, store0, failOrder, run, failedRun1>>

\* queue.onIdle() resolves: the summary is printed.
IsIdle_Early(q, p) == q = <<>>
IsIdle(q, p) == q = <<>> /\ p = 0

Finish ==
  /\ pcMain = "idle"
  /\ IsIdle(queue, pending)
  /\ pcMain' = "done"
  /\ UNCHANGED <<variant, lines, input, budget, store, failLog, idx, tasks, queue, pending, count,
                 seen, retries, store0, failOrder, run, failedRun1>>

\* The request of task i is answered (group variant).
GroupRespond(i, o) ==
  /\ variant = "group"
  /\ i \in 1..Len(tasks)
  /\ tasks[i].st = "inflight"
  /\ MayAnswer(variant, o)
  /\ Drawn(variant, o)
  /\ LET f  == tasks[i].text \o MP3
         m0 == Machine
     IN  IF o = Status(429)
         THEN \* setTimeout(() => fetchAudio(text, attempt + 1).then(resolve), wait)
              Commit([m0 EXCEPT !.tasks[i].st = "wait429", !.tasks[i].rl = TRUE], store)
         ELSE IF o = Status(200)
         THEN \* createWriteStream, pipe, on finish: resolve()
              Commit(afterSettle([m0 EXCEPT !.tasks[i].st = "ok"]), Written(store, f))
         ELSE \* "Failed" is printed, or the error is swallowed: resolve()
              Commit(afterSettle([m0 EXCEPT !.tasks[i].st = "failed",
                                            !.failed = Append(@, i)]), store)
  /\ UNCHANGED <<variant, lines, input, budget, store0, run, failedRun1>>

\* The retry timer of task i fires: fetchAudio(text, attempt + 1).
GroupRetry(i) ==
  /\ variant = "group"
  /\ i \in 1..Len(tasks)
  /\ tasks[i].st = "wait429"
  /\ Commit(afterSettle(fetchAudio(Machine, i, tasks[i].att + 1, store)), store)
  /\ UNCHANGED <<variant, lines, input, budget, retries, store0, run, failedRun1>>

\* The script is run again on the directory the first run left.
Restart ==
  /\ pcMain \in {"done", "uptodate"}
  /\ run = 1
  /\ run' = 2
  /\ failedRun1' = \E i \in 1..Len(tasks) : tasks[i].st = "failed"
  /\ pcMain' = "start"
  /\ tasks' = <<>>
  /\ queue' = <<>>
  /\ pending' = 0
  /\ count' = 0
  /\ seen' = {}
  /\ idx' = 1
  /\ store0' = store
  /\ failOrder' = <<>>
  /\ UNCHANGED <<variant, lines, input, budget, store, failLog, retries>>

\* One run of the script.
NextRun ==
  \/ \E sees \in BOOLEAN : MainStart(sees)
  \/ \E sees \in BOOLEAN : MainWake(sees)
  \/ \E i \in 1..Len(tasks), o \in Answers : Respond(i, o)
  \/ \E i \in 1..Len(tasks) : BackoffExpire(i)
  \/ Finish
  \/ \E i \in 1..Len(tasks), o \in Answers : GroupRespond(i, o)
  \/ \E i \in 1..Len(tasks) : GroupRetry(i)
  \/ \E i \in 1..Len(tasks) : StreamAbort(i)

\* Two runs in succession.
Next ==
  \/ \E sees \in BOOLEAN : MainStart(sees)
  \/ \E sees \in BOOLEAN : MainWake(sees)
  \/ \E i \in 1..Len(tasks), o \in Answers : Respond(i, o)
  \/ \E i \in 1..Len(tasks) : BackoffExpire(i)
  \/ Finish
  \/ \E i \in 1..Len(tasks), o \in Answers : GroupRespond(i, o)
  \/ \E i \in 1..Len(tasks) : GroupRetry(i)
  \/ \E i \in 1..Len(tasks) : StreamAbort(i)
  \/ Restart

\* ------------------------------------------------------------------- Init
\* Line Sources: extractEnglish trims what it returns; extractTexts does not.
QueuePool == {Hi, HiDot, Yo}
SizePool  == {Hi, Ho, Yo}
SeenPool  == {Hi, hi, HiDot, Yo}
GroupPool == {Hi, SpHi, Yo}
WideTexts == <<Hi, Ho, Yi, Yo, Oh, Oy>>
WidePool  == {WideTexts[k] : k \in 1..Len(WideTexts)}
Pool(v) ==
  CASE v = "group" -> GroupPool [] v = "seen" -> SeenPool [] v = "size" -> SizePool
    [] OTHER -> QueuePool

SeqsUpTo(S, n) == UNION {[1..k -> S] : k \in 0..n}

NoRepeat(ls) == \A j, k \in 1..Len(ls) : j # k => ls[j] # ls[k]

\* What the extraction can return: any texts in any order, repeats included.
\* part_000 iterates over a literal list, whose lines are all different.
Sources(v) ==
  IF v = "size"
  THEN {ls \in SeqsUpTo(Pool(v), MaxLines) : NoRepeat(ls)}
  ELSE SeqsUpTo(Pool(v), MaxLines)

Files ==
  {safeName(t) : t \in QueuePool \cup SeenPool \cup WidePool}
    \cup {trim(t) \o MP3 : t \in GroupPool \cup WidePool}
FilesOf(v) == {FileOf(v, trim(t)) : t \in Pool(v)}

\* A directory left by earlier runs: full files, and empty ones of a killed run
\* (drawn for part_000 only, the one variant that tells them from full files).
Stores(v) ==
  LET kinds == IF v = "size" THEN {"absent", "empty", "full"} ELSE {"absent", "full"}
  IN  {[f \in Files |-> IF f \in FilesOf(v) THEN s[f] ELSE "absent"] :
         s \in [FilesOf(v) -> kinds]}

InitRest ==
  /\ failLog \in IF variant = "group" THEN {<<>>} ELSE {<<>>, <<Yo>>}
  /\ pcMain = "start"
  /\ idx = 1
  /\ tasks = <<>>
  /\ queue = <<>>
  /\ pending = 0
  /\ count = 0
  /\ seen = {}
  /\ retries = 0
  /\ store0 = store
  /\ failOrder = <<>>
  /\ run = 1
  /\ failedRun1 = FALSE

\* part_000 reads no file: its lines are literals.  A missing file yields no
\* lines (extractEnglish returns []; part_002 does not get to read it).
Inputs(v) == IF v = "size" THEN {"present"} ELSE {"present", "missing"}

Init ==
  /\ variant \in Variants
  /\ input \in Inputs(variant)
  /\ budget = MaxRetry
  /\ lines \in IF input = "missing" THEN {<<>>} ELSE Sources(variant)
  /\ store \in Stores(variant)
  /\ InitRest

Spec == Init /\ [][Next]_vars

\* Longer Line Sources of distinct texts, on an empty directory: more Lines than
\* `concurrency`.  On such a source the three PQueue scripts take the same
\* steps, so generateAudio.js stands for them.
WideVariants == {"filter", "group"}
WideSources == {SubSeq(WideTexts, 1, n) : n \in 1..Min(MaxWide, Len(WideTexts))}

InitWide ==
  /\ variant \in WideVariants
  /\ input = "present"
  /\ budget = MaxRetry
  /\ lines \in WideSources
  /\ store = [f \in Files |-> "absent"]
  /\ InitRest

SpecWide == InitWide /\ [][NextRun]_vars

\* Line Sources in which two Lines share a Cache Key and follow a Line that
\* has resolved: count is then not a multiple of 50, main adds both without a
\* pause, and both requests are out before either file is opened.
CollideSources == {<<Yo, Hi, HiDot>>, <<Yo, Hi, Hi>>}
CollideVariants == {"filter", "seen"}

InitCollide ==
  /\ variant \in CollideVariants
  /\ input = "present"
  /\ budget = MaxRetry
  /\ lines \in CollideSources
  /\ store \in Stores(variant)
  /\ InitRest

\* One run of a PQueue script.
NextQueue ==
  \/ \E sees \in BOOLEAN : MainStart(sees)
  \/ \E sees \in BOOLEAN : MainWake(sees)
  \/ \E i \in 1..Len(tasks), o \in Answers : Respond(i, o)
  \/ \E i \in 1..Len(tasks) : BackoffExpire(i)
  \/ \E i \in 1..Len(tasks) : StreamAbort(i)
  \/ Finish

SpecCollide == InitCollide /\ [][NextQueue]_vars

\* The steps of main: the module body up to its first await, and its
\* continuation after wait(baseDelay) / delay(baseDelay).
MainStep ==
  \/ \E sees \in BOOLEAN : MainStart(sees)
  \/ \E sees \in BOOLEAN : MainWake(sees)

\* main has a step to take: it is enabled exactly then.
MainDue == pcMain \in {"start", "loop"}

\* The timers of the retries.
TimerStep ==
  \/ \E i \in 1..Len(tasks) : BackoffExpire(i)
  \/ \E i \in 1..Len(tasks) : GroupRetry(i)

\* A retry timer is running and not held back: TimerStep is enabled exactly then.
TimerDue ==
  \E i \in 1..Len(tasks) :
    \/ variant \in QueueVariants /\ tasks[i].st \in {"wait429", "wait500"}
         /\ ~tasks[i].blk
    \/ variant = "group" /\ tasks[i].st = "wait429"

\* The steps of the network: a request is answered.
NetworkStep ==
  \/ \E i \in 1..Len(tasks), o \in Answers : Respond(i, o)
  \/ \E i \in 1..Len(tasks), o \in Answers : GroupRespond(i, o)

\* A request is out: NetworkStep is enabled exactly then (an answer that is
\* not retryable can always be drawn).
NetworkDue == \E i \in 1..Len(tasks) : tasks[i].st = "inflight"

\* Weak fairness of the steps above, each written with its enabling condition.
FairMain == []<>(~MainDue) \/ []<><<MainStep>>_vars
FairTimers == []<>(~TimerDue) \/ []<><<TimerStep>>_vars
FairNetwork == []<>(~NetworkDue) \/ []<><<NetworkStep>>_vars

\* The event loop runs what is due: main's continuation, the timers, and the
\* resolution of queue.onIdle().
FairProgram == FairMain /\ FairTimers /\ WF_vars(Finish)

\* One run on an input that exists.
InitLive ==
  /\ variant \in Variants
  /\ input = "present"
  /\ budget = MaxRetry
  /\ lines \in Sources(variant)
  /\ store \in Stores(variant)
  /\ InitRest

\* The code sets no timeout on a request (no setTimeout on the request, no
\* timeout option of https.get): nothing obliges an answer to come.
SpecNoReply == InitLive /\ [][NextRun]_vars /\ FairProgram

\* The network answers every request in the end.
SpecFair == InitLive /\ [][NextRun]_vars /\ FairProgram /\ FairNetwork

\* A Line Source of one Line more than `concurrency`, answered with as many
\* retryable answers as there are slots: every slot can be in backoff while a
\* Line waits.
BackoffSources == {ls \in WideSources : Len(ls) = concurrency + 1}

InitBackoff ==
  /\ variant \in WideVariants
  /\ input = "present"
  /\ budget = concurrency
  /\ lines \in BackoffSources
  /\ store = [f \in Files |-> "absent"]
  /\ InitRest

SpecBackoff == InitBackoff /\ [][NextRun]_vars

\* ----------------------------------------------------------------- claims
TaskIds == 1..Len(tasks)
TaskFile(i) == FileOf(variant, tasks[i].text)
InFlight == {i \in TaskIds : tasks[i].st = "inflight"}
Failed == {i \in TaskIds : tasks[i].st = "failed"}
Finished == pcMain = "done"

\* C1: in every reachable state at most `concurrency` Lines have a fetch in
\* flight, whatever the Line Source and whatever the answers and retries.
C1_InFlightBound == Cardinality(InFlight) <= concurrency

\* C1 witness: `concurrency` fetches are in flight while a further Line waits in
\* the PQueue.
C1_Witness == Cardinality(InFlight) = concurrency /\ queue # <<>>

\* C2: a Line whose file was a non-empty artifact when the run started is
\* never fetched during the run.
C2_NoFetchForCached ==
  \A i \in TaskIds : store0[TaskFile(i)] = "full" => tasks[i].nf = 0

\* C2 witness: a Line whose file was full at the start went through download
\* and was skipped.
C2_Witness ==
  \E i \in TaskIds : store0[TaskFile(i)] = "full" /\ tasks[i].st = "skipped"

\* C8: when the final summary is printed every Line main dispatched is
\* terminal (Success or Failed): none is queued, in flight or in backoff.
C8_DoneOnlyWhenSettled ==
  Finished => queue = <<>> /\ \A i \in TaskIds : tasks[i].st \in Terminal

\* C8 witness: a run completed in which one Line was saved and another failed.
C8_Witness ==
  /\ Finished
  /\ variant \in QueueVariants
  /\ \E i \in TaskIds : tasks[i].st = "ok"
  /\ Failed # {}

\* The request of task i is answered with o, in whichever variant runs.
Answered(i, o) == Respond(i, o) \/ GroupRespond(i, o)

\* The retry timer of task i fires, in whichever variant runs.
RetryFires(i) == BackoffExpire(i) \/ GroupRetry(i)

RECURSIVE Occurrences(_, _)
Occurrences(sq, x) ==
  IF sq = <<>> THEN 0
  ELSE (IF Head(sq) = x THEN 1 ELSE 0) + Occurrences(Tail(sq), x)

InOrder(sq, i) == \E k \in 1..Len(sq) : sq[k] = i

\* C3: of two Lines of one run with the same normalized text (trimmed,
\* lower-cased) only the first is dispatched: the later one is never fetched
\* and never logged as a failure.
C3_DuplicateNeverFetched ==
  \A i, j \in TaskIds :
    (i < j /\ SeenKey(tasks[i].text) = SeenKey(tasks[j].text))
      => (tasks[j].nf = 0 /\ tasks[j].st # "failed")

C5_RateLimitedThenSuccess ==
  [][\A i \in TaskIds :
       /\ Answered(i, Status(429))
            => /\ tasks'[i].st = "wait429"
               /\ failLog' = failLog
               /\ failOrder' = failOrder
       /\ (tasks[i].st = "wait429" /\ RetryFires(i))
            => IF FileExists(variant, store, TaskFile(i))
               THEN tasks'[i].st = "skipped"
               ELSE tasks'[i].st = "inflight" /\ tasks'[i].nf = tasks[i].nf + 1
       /\ (tasks[i].rl /\ Answered(i, Status(200)))
            => /\ tasks'[i].st = "ok"
               /\ store'[TaskFile(i)] = "full"
               /\ failLog' = failLog
               /\ ~InOrder(failOrder', i)]_vars

\* C6: a non-retryable answer (404, or a network error) makes the Line Failed
\* with no further fetch, leaves no file under its key, and the Failure Record
\* log then holds the Line's text exactly once.
C6_TerminalFailureLoggedOnce ==
  [][\A i \in TaskIds : \A o \in {Status(404), NetError} :
       Answered(i, o)
         => /\ tasks'[i].st = "failed"
            /\ tasks'[i].nf = tasks[i].nf
            /\ store'[TaskFile(i)] = "absent"
            /\ Occurrences(failLog', tasks[i].text) = 1]_vars

\* C7: any 5xx answer sends the Line back to a backoff and a further fetch;
\* it never fails the Line and writes no Failure Record.
C7_ServerErrorRetried ==
  [][\A i \in TaskIds : \A o \in {Status(500), Status(503)} :
       Answered(i, o)
         => /\ tasks'[i].st = "wait500"
            /\ failLog' = failLog
            /\ failOrder' = failOrder]_vars

\* C9: at completion the Failure Record log is exactly the texts of the Lines
\* that ended Failed in this run, one per entry, in the order they failed.
C9_LogIsFailedInOrder ==
  Finished => failLog = [k \in 1..Len(failOrder) |-> tasks[failOrder[k]].text]

\* C10: the count reported at completion is the number of artifacts the run
\* created (the variants that report a count).
NewArtifacts == {f \in Files : store0[f] # "full" /\ store[f] = "full"}

C10_CountIsNewArtifacts ==
  (Finished /\ variant \in QueueVariants) => count = Cardinality(NewArtifacts)

\* The Lines main has handed to the PQueue (or to fetchAudio) so far.
Dispatched == Cardinality({i \in TaskIds : tasks[i].st \notin {"new", "dup"}})

\* C11: the dispatch loop of a PQueue script is in its batch pause only after
\* a multiple of N = 50 Lines was dispatched, whatever has completed.
C11_PauseEveryBatch ==
  (variant \in QueueVariants /\ pcMain = "loop") => Dispatched % BatchEvery = 0

\* The place of a task's Line in the Line Source: the PQueue scripts iterate
\* in source order; part_002 iterates over the sorted set of trimmed texts.
FirstIndex(t) ==
  CHOOSE k \in 1..Len(lines) :
    trim(lines[k]) = t /\ \A h \in 1..(k - 1) : trim(lines[h]) # t

SourceBefore(i, j) ==
  IF variant = "group"
  THEN FirstIndex(tasks[i].text) < FirstIndex(tasks[j].text)
  ELSE i < j

\* C12: of two Lines that are both fetched, the one that comes first in the
\* Line Source has its first request started first.
C12_AdmittedInSourceOrder ==
  \A i, j \in TaskIds :
    (SourceBefore(i, j) /\ tasks[i].ord > 0 /\ tasks[j].ord > 0)
      => tasks[i].ord <= tasks[j].ord

\* C13: a file that was not there when the run started exists only if a fetch
\* for its key ended in Success; no empty or partial file stands for a key
\* without one.
C13_FileOnlyAfterSuccess ==
  \A f \in Files :
    (store0[f] = "absent" /\ store[f] # "absent")
      => \E i \in TaskIds : TaskFile(i) = f /\ tasks[i].st = "ok"

\* C14: when the connection is lost while a 200 body is streamed to the file,
\* the partial file is removed and the attempt ends with a failure outcome:
\* the Line does not stay in flight or stuck.
C14_StreamErrorSurfaced ==
  [][\A i \in TaskIds :
       StreamAbort(i)
         => /\ store'[TaskFile(i)] = "absent"
            /\ tasks'[i].st \notin {"inflight", "stuck"}]_vars

\* C15: no fetch stays in flight forever: a request that gets no response is
\* ended by the request timeout.
C15_NoFetchForever ==
  \A i \in 1..MaxLines : (i \in InFlight) ~> (i \notin InFlight)

\* The run is over: the summary or "all up to date" was printed, or the process
\* was ended by process.exit(1).
Ended == pcMain \in {"done", "uptodate", "fatal"}

\* The exit status of a run that is over.
ExitStatus == IF pcMain = "fatal" THEN 1 ELSE 0

\* C16: a run whose input file is missing ends with a non-zero exit status
\* before any fetch; every other run ends with status 0.
C16_MissingInputIsFatal ==
  Ended =>
    /\ (input = "missing") <=> (ExitStatus # 0)
    /\ (input = "missing") => \A i \in TaskIds : tasks[i].nf = 0

\* C17: in the script that checks the size (part_000), a Line whose file is
\* there with zero size when the run starts is dispatched and fetched.
C17_EmptyFileIsFetched ==
  (variant = "size" /\ Ended)
    => \A k \in 1..Len(lines) :
         store0[safeName(lines[k])] = "empty"
           => \E i \in TaskIds : tasks[i].text = lines[k] /\ tasks[i].nf > 0

\* The Lines whose fetch got no outcome: the response broke off.
Stuck == {i \in TaskIds : tasks[i].st = "stuck"}

\* The run reported completion with every Line Success or Failed.
Completed == Ended /\ \A i \in TaskIds : tasks[i].st \in Terminal

\* C18: under fair scheduling, when every request gets an outcome (none
\* breaks off without one) and the retryable answers are finitely many (at
\* most MaxRetry), every Line ends Success or Failed and the run reports
\* completion.
C18_Terminates == [](Stuck = {}) => <>Completed

\* C18 witness: a run completed after a Line was answered 429 or 500, was
\* fetched again and saved, while another Line failed.
C18_Witness ==
  /\ Completed
  /\ pcMain = "done"
  /\ \E i \in TaskIds : tasks[i].nf >= 2 /\ tasks[i].st = "ok"
  /\ \E j \in TaskIds : tasks[j].st = "failed"

\* The wait fetchAudio computes when it is answered 429: retryWait * attempt.
BackoffWait(i) == retryWait * tasks[i].att

\* C19: in part_002 the wait before the retry that follows the k-th 429 answer
\* in a row of a Line is retryWait * k.  (A Line in wait429 has had all its
\* nf requests answered 429.)
C19_BackoffScalesWithAttempt ==
  variant = "group"
    => \A i \in TaskIds :
         tasks[i].st = "wait429" => BackoffWait(i) = retryWait * tasks[i].nf

\* The Lines the summary counts: count++ follows every download that resolved,
\* "ok" or "skipped".
Counted == {i \in TaskIds : tasks[i].st \in {"ok", "skipped"}}

\* C20: at completion every Line counted as a success has a file under its
\* Cache Key.
C20_CountedLineHasFile ==
  (Finished /\ variant \in QueueVariants)
    => \A i \in Counted : store[TaskFile(i)] # "absent"

\* The Lines waiting in a retry backoff.
InBackoff == {i \in TaskIds : tasks[i].st \in {"wait429", "wait500"}}

\* C21: the Lines in flight or in a retry backoff are never more than
\* `concurrency`, and while `concurrency` Lines are in backoff no request is
\* started for any other Line.
C21_BackoffKeepsSlot ==
  /\ [](Cardinality(InFlight \cup InBackoff) <= concurrency)
  /\ [][Cardinality(InBackoff) = concurrency
          => \A i \in TaskIds \ InBackoff :
               i <= Len(tasks') => tasks'[i].nf = tasks[i].nf]_vars

\* C21 witness: `concurrency` Lines are in backoff while a further Line waits
\* for a slot and has not been fetched.
C21_Witness ==
  /\ Cardinality(InBackoff) = concurrency
  /\ \E i \in TaskIds : tasks[i].st \in {"new", "queued"} /\ tasks[i].nf = 0

\* The Lines that reached an outcome: saved, skipped as present, or Failed.
Accounted == {i \in TaskIds : tasks[i].st \in {"ok", "skipped", "failed"}}

\* The success count: main's count.
Successes == count

\* C22: in a run of a script that counts (the PQueue scripts), once the module
\* body has emptied failures.txt, the success count plus the number of Failure
\* Record entries is the number of Lines that reached a terminal state, and at
\* completion it is the number of dispatched Lines.
C22_EveryLineAccountedOnce ==
  (variant \in QueueVariants /\ pcMain # "start")
    => /\ Successes + Len(failLog) = Cardinality(Accounted)
       /\ Finished => Successes + Len(failLog) = Dispatched

\* C22 witness: a run of a PQueue script completed with one Line counted and
\* another in the Failure Record log.
C22_Witness ==
  /\ Finished
  /\ variant \in QueueVariants
  /\ count = 1
  /\ Len(failLog) = 1
  /\ Dispatched = 2

====
